---- MODULE Spec2Model ----
(***************************************************************************)
(* The user-account data-access layer of app/crud/crud_user.py: CRUDUser   *)
(* over a table of User rows.  Nullable columns and optional results are   *)
(* sequences of length at most one: <<>> is None, <<v>> is the value v.    *)
(***************************************************************************)
EXTENDS Integers, Sequences, FiniteSets, TLC

\* ------------------------------------------------------------------ bounds
MaxUsers == 1

\* ------------------------------------------------------------------ values
None == <<>>
Some(v) == <<v>>

Emails == {"a@x", "b@x"}
Passwords == {"", "p", "q"}
NewPasswords == {"", "p"}
Tokens == {"t1"}
UserIds == 1..(MaxUsers + 1)
Salts == {"s1"}
Times == {"T1"}

\* The columns of the users table.
Columns ==
    {"id", "email", "hashed_password", "first_name", "last_name",
     "is_active", "is_admin", "is_verified",
     "verification_token", "verification_sent_at",
     "password_reset_token", "password_reset_at"}

\* ------------------------------------------------- password hash primitive
\* hash(plaintext): a salted one-way hash string <<scheme, salt, digest>>.
\* The digest of (salt, password) is written as the password it digests:
\* distinct passwords have distinct digests, and nothing reads it back but
\* verify_password.
HashWith(salt, password) == <<"$2b$", salt, password>>
get_password_hash(password) == {HashWith(s, password) : s \in Salts}

\* verify(plaintext, hash): re-hashes with the salt stored in the hash.
verify_password(password, hashed) ==
    /\ Len(hashed) = 3
    /\ hashed[1] = "$2b$"
    /\ hashed = HashWith(hashed[2], password)

\* What a column holds when a plaintext is stored in it unhashed.
Plain(password) == <<password>>

\* ------------------------------------------------------------------- state
VARIABLES
    users,      \* the users table: a sequence of rows, row i has id i
    ret,        \* the value the last call returned: None or Some(row)
    last,       \* the last call: its name and arguments
    sess        \* per concurrent session: the call in progress and its
                \* uncommitted attribute assignments

vars == <<users, ret, last, sess>>

\* ----------------------------------------------------------- store access
\* CRUDBase.get: the row with this id, or None.
get(db, id) == IF id \in 1..Len(db) THEN Some(db[id]) ELSE None

\* get_by_email: .filter(User.email == email).first()
MatchingIds(db, email) == {i \in 1..Len(db) : db[i].email = email}
Min(S) == CHOOSE m \in S : \A n \in S : m <= n
get_by_email(db, email) ==
    IF MatchingIds(db, email) = {} THEN None
    ELSE Some(db[Min(MatchingIds(db, email))])

\* The unique constraint on email: a commit that would break it fails.
EmailFree(db, id, email) == \A i \in 1..Len(db) : i # id => db[i].email # email

\* db.add(row); db.commit(): the row replaces the one with its id.
Persist(db, row) == [db EXCEPT ![row.id] = row]

\* ------------------------------------------------------------------ inputs
\* UserCreate: the fields create reads, and is_verified, which a caller may
\* provide (Some(b)) or leave out (None).
Flags == {<<TRUE, FALSE>>, <<FALSE, TRUE>>}
CreateInputs ==
    {[email |-> e, password |-> p, first_name |-> "Ann", last_name |-> "Lee",
      is_active |-> f[1], is_admin |-> f[2], is_verified |-> v] :
        e \in Emails, p \in NewPasswords, f \in Flags, v \in {None, Some(TRUE)}}

\* UserUpdate / Dict[str, Any] change-sets: a password (null, empty or a
\* string), other columns, or a password together with another column.
PasswordParts ==
    {[password |-> v] : v \in {None} \cup {Some(p) : p \in NewPasswords}}
OtherParts ==
    {<<>>,
     [email |-> "b@x"],
     [password_reset_token |-> Some("t1")]}
UpdateInputs ==
    PasswordParts \cup OtherParts
        \cup {pp @@ [email |-> "b@x"] : pp \in PasswordParts}

\* Python truthiness of an optional string: None and "" are falsy.
Truthy(v) == v # None /\ v[1] # ""

\* ---------------------------------------------------------------- create
\* Faulty variant: is_admin left at its default instead of copied.
NewUser_DefaultAdmin(id, obj_in, hashed) ==
    [id |-> id,
     email |-> obj_in.email,
     hashed_password |-> hashed,
     first_name |-> obj_in.first_name,
     last_name |-> obj_in.last_name,
     is_active |-> obj_in.is_active,
     is_admin |-> FALSE,
     is_verified |-> FALSE,
     verification_token |-> None,
     verification_sent_at |-> None,
     password_reset_token |-> None,
     password_reset_at |-> None]

\* User(...) as constructed by create; the columns it does not pass
\* (is_verified and the token columns) take the table's defaults.
NewUser(id, obj_in, hashed) ==
    [id |-> id,
     email |-> obj_in.email,
     hashed_password |-> hashed,
     first_name |-> obj_in.first_name,
     last_name |-> obj_in.last_name,
     is_active |-> obj_in.is_active,
     is_admin |-> obj_in.is_admin,
     is_verified |-> FALSE,
     verification_token |-> None,
     verification_sent_at |-> None,
     password_reset_token |-> None,
     password_reset_at |-> None]

\* create: a commit that breaks the unique constraint raises and writes
\* nothing, so the call is left out.
Create(obj_in) ==
    /\ Len(users) < MaxUsers
    /\ EmailFree(users, 0, obj_in.email)
    /\ \E hashed \in get_password_hash(obj_in.password) :
         LET db_obj == NewUser(Len(users) + 1, obj_in, hashed) IN
           /\ users' = Append(users, db_obj)
           /\ ret' = Some(db_obj)
    /\ last' = [op |-> "create", obj_in |-> obj_in]
    /\ UNCHANGED sess

\* ---------------------------------------------------------------- update
\* Faulty variant: the hash is added but the password key is not deleted.
UpdateData_KeepsPassword(obj_in, hashed) ==
    IF "password" \in DOMAIN obj_in /\ Truthy(obj_in["password"])
    THEN [k \in DOMAIN obj_in \cup {"hashed_password"} |->
            IF k = "hashed_password" THEN hashed ELSE obj_in[k]]
    ELSE obj_in

\* The dict handed to the generic update.
UpdateData(obj_in, hashed) ==
    IF "password" \in DOMAIN obj_in /\ Truthy(obj_in["password"])
    THEN [k \in (DOMAIN obj_in \ {"password"}) \cup {"hashed_password"} |->
            IF k = "hashed_password" THEN hashed ELSE obj_in[k]]
    ELSE obj_in

\* The hashes update may compute for this change-set.
UpdateHashes(obj_in) ==
    IF "password" \in DOMAIN obj_in /\ Truthy(obj_in["password"])
    THEN get_password_hash(obj_in["password"][1])
    ELSE {None}

\* CRUDBase.update: every column present in the change-set is assigned,
\* the others keep their value.
BaseUpdate(db_obj, update_data) ==
    [c \in Columns |->
        IF c \in DOMAIN update_data THEN update_data[c] ELSE db_obj[c]]

\* update of a row the caller fetched; as for create, a commit that breaks
\* the unique constraint raises and writes nothing.
Update(id, obj_in) ==
    /\ id \in 1..Len(users)
    /\ \E hashed \in UpdateHashes(obj_in) :
         LET update_data == UpdateData(obj_in, hashed)
             row == BaseUpdate(users[id], update_data)
         IN /\ EmailFree(users, id, row.email)
            /\ users' = Persist(users, row)
            /\ ret' = Some(row)
            /\ last' = [op |-> "update", id |-> id, obj_in |-> obj_in,
                        update_data |-> update_data]
    /\ UNCHANGED sess

\* ---------------------------------------------------------- authenticate
\* Faulty variant: the password is not verified.
authenticate_SkipsVerify(db, email, password) ==
    get_by_email(db, email)

authenticate(db, email, password) ==
    LET user == get_by_email(db, email) IN
      IF user = None THEN None
      ELSE IF ~verify_password(password, user[1].hashed_password) THEN None
      ELSE user

Authenticate(email, password) ==
    /\ ret' = authenticate(users, email, password)
    /\ last' = [op |-> "authenticate", email |-> email, password |-> password]
    /\ UNCHANGED <<users, sess>>

\* ------------------------------------------------------- token lifecycle
\* Faulty variant: the token is not cleared.
VerifiedRow_KeepsToken(user) ==
    [user EXCEPT !.is_verified = TRUE]

\* The two assignments of verify_email.
VerifiedRow(user) ==
    [user EXCEPT !.is_verified = TRUE, !.verification_token = None]

\* Faulty variant: no `if user:`, so a missing user raises.
VerifyEmail_Unchecked(user_id) ==
    LET user == get(users, user_id) IN
      /\ IF user # None
         THEN /\ users' = Persist(users, VerifiedRow(user[1]))
              /\ ret' = Some(VerifiedRow(user[1]))
         ELSE /\ users' = users
              /\ ret' = Some("AttributeError")
      /\ last' = [op |-> "verify_email", id |-> user_id]
      /\ UNCHANGED sess

VerifyEmail(user_id) ==
    LET user == get(users, user_id) IN
      /\ IF user # None
         THEN /\ users' = Persist(users, VerifiedRow(user[1]))
              /\ ret' = Some(VerifiedRow(user[1]))
         ELSE /\ users' = users
              /\ ret' = user
      /\ last' = [op |-> "verify_email", id |-> user_id]
      /\ UNCHANGED sess

\* The two assignments of set_verification_token.
VerificationTokenRow(user, token, at) ==
    [user EXCEPT !.verification_token = Some(token),
                 !.verification_sent_at = Some(at)]

SetVerificationToken(user_id, token) ==
    LET user == get(users, user_id) IN
      /\ IF user # None
         THEN \E now \in Times :
                /\ users' = Persist(users, VerificationTokenRow(user[1], token, now))
                /\ ret' = Some(VerificationTokenRow(user[1], token, now))
         ELSE /\ users' = users
              /\ ret' = user
      /\ last' = [op |-> "set_verification_token", id |-> user_id, token |-> token]
      /\ UNCHANGED sess

\* The two assignments of set_password_reset_token.
PasswordResetTokenRow(user, token, at) ==
    [user EXCEPT !.password_reset_token = Some(token),
                 !.password_reset_at = Some(at)]

SetPasswordResetToken(user_id, token) ==
    LET user == get(users, user_id) IN
      /\ IF user # None
         THEN \E now \in Times :
                /\ users' = Persist(users, PasswordResetTokenRow(user[1], token, now))
                /\ ret' = Some(PasswordResetTokenRow(user[1], token, now))
         ELSE /\ users' = users
              /\ ret' = user
      /\ last' = [op |-> "set_password_reset_token", id |-> user_id, token |-> token]
      /\ UNCHANGED sess

\* Faulty variant: password_reset_at is not cleared.
ResetRow_KeepsTimestamp(user, hashed_password) ==
    [user EXCEPT !.hashed_password = hashed_password,
                 !.password_reset_token = None]

\* Faulty variant: the new hash is not assigned.
ResetRow_KeepsHash(user, hashed_password) ==
    [user EXCEPT !.password_reset_token = None,
                 !.password_reset_at = None]

\* The three assignments of reset_password.
ResetRow(user, hashed_password) ==
    [user EXCEPT !.hashed_password = hashed_password,
                 !.password_reset_token = None,
                 !.password_reset_at = None]

\* Faulty variant: the new password is stored unhashed.
ResetPassword_StoresPlain(user_id, new_password) ==
    LET user == get(users, user_id) IN
      /\ IF user # None
         THEN /\ users' = Persist(users, ResetRow(user[1], Plain(new_password)))
              /\ ret' = Some(ResetRow(user[1], Plain(new_password)))
         ELSE /\ users' = users
              /\ ret' = user
      /\ last' = [op |-> "reset_password", id |-> user_id,
                  new_password |-> new_password]
      /\ UNCHANGED sess

ResetPassword(user_id, new_password) ==
    LET user == get(users, user_id) IN
      /\ IF user # None
         THEN \E hashed_password \in get_password_hash(new_password) :
                /\ users' = Persist(users, ResetRow(user[1], hashed_password))
                /\ ret' = Some(ResetRow(user[1], hashed_password))
         ELSE /\ users' = users
              /\ ret' = user
      /\ last' = [op |-> "reset_password", id |-> user_id,
                  new_password |-> new_password]
      /\ UNCHANGED sess

\* ----------------------------------------------------------- specification
Sessions == {"s1", "s2"}
Idle == [pc |-> "idle"]

Init ==
    /\ users = <<>>
    /\ ret = None
    /\ last = [op |-> "init"]
    /\ sess = [s \in Sessions |-> Idle]

Next ==
    \/ \E obj_in \in CreateInputs : Create(obj_in)
    \/ \E id \in UserIds, obj_in \in UpdateInputs : Update(id, obj_in)
    \/ \E email \in Emails, password \in Passwords : Authenticate(email, password)
    \/ \E id \in UserIds : VerifyEmail(id)
    \/ \E id \in UserIds, token \in Tokens : SetVerificationToken(id, token)
    \/ \E id \in UserIds, token \in Tokens : SetPasswordResetToken(id, token)
    \/ \E id \in UserIds, password \in NewPasswords : ResetPassword(id, password)

Spec == Init /\ [][Next]_vars

\* ------------------------------------------------- concurrent sessions
\* Each session runs one handler at a time, statement by statement: the
\* lookup, the attribute assignments on its own copy of the row, then
\* db.add / db.commit / db.refresh and the return.  Other sessions and
\* readers see the table, never a session's uncommitted assignments.

\* The calls concurrent sessions make.  Every sign-up is for the same
\* email, so the sessions race on one row and on its unique constraint.
ConcCalls ==
    {[op |-> "create", obj_in |-> o] :
        o \in {c \in CreateInputs : /\ c.email = "a@x" /\ c.password = "p"
                                    /\ c.is_active /\ c.is_verified = None}}
    \cup
    {[op |-> "update", id |-> i, obj_in |-> o] :
        i \in UserIds, o \in {[password |-> Some("p"), last_name |-> "Ng"]}}
    \cup {[op |-> "verify_email", id |-> i] : i \in UserIds}
    \cup {[op |-> "set_verification_token", id |-> i, token |-> t] :
            i \in UserIds, t \in Tokens}
    \cup {[op |-> "set_password_reset_token", id |-> i, token |-> t] :
            i \in UserIds, t \in Tokens}
    \cup {[op |-> "reset_password", id |-> i, new_password |-> ""] :
            i \in UserIds}

\* The order in which the generic update visits the columns.
ColumnOrder ==
    <<"id", "email", "hashed_password", "first_name", "last_name",
      "is_active", "is_admin", "is_verified",
      "verification_token", "verification_sent_at",
      "password_reset_token", "password_reset_at">>

RECURSIVE SetAttrs(_, _)
\* setattr(db_obj, field, update_data[field]) for each column present.
SetAttrs(cols, update_data) ==
    IF cols = <<>> THEN <<>>
    ELSE IF Head(cols) \in DOMAIN update_data
         THEN <<<<Head(cols), update_data[Head(cols)]>>>>
                \o SetAttrs(Tail(cols), update_data)
         ELSE SetAttrs(Tail(cols), update_data)

\* The attribute assignments of a handler, in statement order.
Assignments(call, hashed, now) ==
    CASE call.op = "verify_email" ->
           <<<<"is_verified", TRUE>>, <<"verification_token", None>>>>
      [] call.op = "set_verification_token" ->
           <<<<"verification_token", Some(call.token)>>,
             <<"verification_sent_at", Some(now)>>>>
      [] call.op = "set_password_reset_token" ->
           <<<<"password_reset_token", Some(call.token)>>,
             <<"password_reset_at", Some(now)>>>>
      [] call.op = "reset_password" ->
           <<<<"hashed_password", hashed>>,
             <<"password_reset_token", None>>,
             <<"password_reset_at", None>>>>
      [] call.op = "update" ->
           SetAttrs(ColumnOrder, UpdateData(call.obj_in, hashed))
      [] call.op = "create" -> <<>>

\* The hashes a call may compute.
CallHashes(call) ==
    CASE call.op = "create" -> get_password_hash(call.obj_in.password)
      [] call.op = "update" -> UpdateHashes(call.obj_in)
      [] call.op = "reset_password" -> get_password_hash(call.new_password)
      [] OTHER -> {None}

\* What the finished call records as the last call.
Done(call, hashed) ==
    IF call.op = "update"
    THEN [op |-> "update", id |-> call.id, obj_in |-> call.obj_in,
          update_data |-> UpdateData(call.obj_in, hashed)]
    ELSE call

\* A session enters a handler: the lookup by id (or, for update, the row
\* the caller passes), and the values the handler computes.
Call(s, call) ==
    /\ sess[s] = Idle
    /\ IF call.op = "create"
       THEN /\ Len(users) < MaxUsers
            /\ \E hashed \in CallHashes(call) :
                 sess' = [sess EXCEPT ![s] =
                            [pc |-> "commit", call |-> call, hashed |-> hashed,
                             now |-> None, todo |-> <<>>, writes |-> <<>>]]
            /\ UNCHANGED <<users, ret, last>>
       ELSE IF get(users, call.id) = None
       THEN /\ call.op # "update"
            /\ ret' = None
            /\ last' = call
            /\ UNCHANGED <<users, sess>>
       ELSE /\ \E hashed \in CallHashes(call), now \in Times :
                 LET todo == Assignments(call, hashed, now) IN
                   sess' = [sess EXCEPT ![s] =
                              [pc |-> IF todo = <<>> THEN "commit" ELSE "assign",
                               call |-> call, hashed |-> hashed,
                               now |-> Some(now), todo |-> todo,
                               writes |-> <<>>]]
            /\ UNCHANGED <<users, ret, last>>

\* Faulty variant: each assignment is written to the table at once.
Assign_WriteThrough(s) ==
    /\ sess[s].pc = "assign"
    /\ LET a == Head(sess[s].todo) IN
         /\ sess' = [sess EXCEPT
                ![s].writes = (a[1] :> a[2]) @@ sess[s].writes,
                ![s].todo = Tail(sess[s].todo),
                ![s].pc = IF Len(sess[s].todo) = 1 THEN "commit" ELSE "assign"]
         /\ users' = [users EXCEPT ![sess[s].call.id][a[1]] = a[2]]
    /\ UNCHANGED <<ret, last>>

\* One attribute assignment on the session's copy of the row.
Assign(s) ==
    /\ sess[s].pc = "assign"
    /\ LET a == Head(sess[s].todo) IN
         sess' = [sess EXCEPT
            ![s].writes = (a[1] :> a[2]) @@ sess[s].writes,
            ![s].todo = Tail(sess[s].todo),
            ![s].pc = IF Len(sess[s].todo) = 1 THEN "commit" ELSE "assign"]
    /\ UNCHANGED <<users, ret, last>>

\* The row an UPDATE of the assigned columns leaves in the table.
Flushed(row, writes) ==
    [c \in Columns |-> IF c \in DOMAIN writes THEN writes[c] ELSE row[c]]

\* db.add; db.commit; db.refresh; return.  A commit that breaks the unique
\* constraint raises: nothing is written and nothing is returned.
Commit(s) ==
    /\ sess[s].pc = "commit"
    /\ sess' = [sess EXCEPT ![s] = Idle]
    /\ LET call == sess[s].call IN
         IF call.op = "create"
         THEN IF EmailFree(users, 0, call.obj_in.email) /\ Len(users) < MaxUsers
              THEN LET db_obj == NewUser(Len(users) + 1, call.obj_in,
                                         sess[s].hashed) IN
                     /\ users' = Append(users, db_obj)
                     /\ ret' = Some(db_obj)
                     /\ last' = Done(call, sess[s].hashed)
              ELSE UNCHANGED <<users, ret, last>>
         ELSE LET row == Flushed(users[call.id], sess[s].writes) IN
                IF EmailFree(users, call.id, row.email)
                THEN /\ users' = Persist(users, row)
                     /\ ret' = Some(row)
                     /\ last' = Done(call, sess[s].hashed)
                ELSE UNCHANGED <<users, ret, last>>

\* A concurrent reader fetches a row.
Read(id) ==
    /\ ret' = get(users, id)
    /\ last' = [op |-> "read", id |-> id]
    /\ UNCHANGED <<users, sess>>

NextConc ==
    \/ \E s \in Sessions, call \in ConcCalls : Call(s, call)
    \/ \E s \in Sessions : Assign(s)
    \/ \E s \in Sessions : Commit(s)
    \/ \E id \in UserIds : Read(id)

SpecConc == Init /\ [][NextConc]_vars

\* ------------------------------------------------------------- properties
Ids == 1..Len(users)
TokenOps ==
    {"verify_email", "set_verification_token",
     "set_password_reset_token", "reset_password"}
IsOneWayHash(h) == Len(h) = 3 /\ h[1] = "$2b$"

\* C1: a user whose verification_token is not null has is_verified = FALSE,
\* in every state the account operations reach.
C1_TokenImpliesUnverified ==
    \A i \in Ids :
        users[i].verification_token # None => users[i].is_verified = FALSE

\* C2 as stated: password_reset_token and password_reset_at of every user
\* are both null or both set, in every state the account operations reach.
C2_ResetPair ==
    \A i \in Ids :
        (users[i].password_reset_token = None) <=> (users[i].password_reset_at = None)

\* The call is an update whose change-set names a reset column.
NamesResetColumn(call) ==
    /\ call.op = "update"
    /\ DOMAIN call.obj_in \cap {"password_reset_token", "password_reset_at"} # {}

\* C2 amended: every account operation other than an update whose
\* change-set names password_reset_token or password_reset_at keeps the two
\* columns of every user both null or both set.
C2_ResetPairKept ==
    [][(C2_ResetPair /\ ~NamesResetColumn(last')) => C2_ResetPair']_vars

C2_Witness ==
    /\ last.op = "update"
    /\ ~NamesResetColumn(last)
    /\ users[last.id].password_reset_token # None
    /\ users[last.id].password_reset_at # None
    /\ "email" \in DOMAIN last.obj_in

C4_OldAlwaysFails ==
    [][(last'.op = "reset_password" /\ last'.id \in Ids) =>
        LET user == users'[last'.id] IN
          /\ authenticate(users', user.email, last'.new_password) = Some(user)
          /\ \A old \in Passwords :
                verify_password(old, users[last'.id].hashed_password) =>
                    authenticate(users', user.email, old) = None
          /\ user.password_reset_token = None
          /\ user.password_reset_at = None]_vars

\* C4 amended: as C4, with authenticate returning absent for every password
\* that verified before and differs from the new one.
C4_OldFailsUnlessSame ==
    [][(last'.op = "reset_password" /\ last'.id \in Ids) =>
        LET user == users'[last'.id] IN
          /\ authenticate(users', user.email, last'.new_password) = Some(user)
          /\ \A old \in Passwords :
                (/\ verify_password(old, users[last'.id].hashed_password)
                 /\ old # last'.new_password) =>
                    authenticate(users', user.email, old) = None
          /\ user.password_reset_token = None
          /\ user.password_reset_at = None]_vars

C4_Witness ==
    /\ last.op = "reset_password"
    /\ last.id \in Ids
    /\ ret = Some(users[last.id])
    /\ ret[1].password_reset_at = None
    /\ verify_password(last.new_password, ret[1].hashed_password)

\* C5: authenticate leaves the table unchanged; it returns absent both for
\* an unregistered email and for a registered email whose hash does not
\* verify the password, and returns the user exactly when the email is
\* registered and the password verifies.
C5_Authenticate ==
    [][last'.op = "authenticate" =>
        LET hits == {i \in Ids : /\ users[i].email = last'.email
                                 /\ verify_password(last'.password,
                                                    users[i].hashed_password)}
        IN /\ users' = users
           /\ hits = {} => ret' = None
           /\ hits # {} => \E i \in hits : ret' = Some(users[i])]_vars

C5_Witness ==
    /\ last.op = "authenticate"
    /\ ret = None
    /\ \E i \in Ids : users[i].email = last.email
    /\ \E e \in Emails : \A i \in Ids : users[i].email # e

\* C6: a token operation on an id with no row returns absent and leaves the
\* table as it was.
C6_MissingIdNoWrite ==
    [][(last'.op \in TokenOps /\ last'.id \notin Ids) =>
        (ret' = None /\ users' = users)]_vars

C6_Witness ==
    /\ last.op = "set_verification_token"
    /\ last.id \notin Ids
    /\ ret = None
    /\ Ids # {}

\* C7: after verify_email(id) on an existing user, fetching the user again
\* shows is_verified = TRUE and verification_token null, whatever the token
\* was before.
C7_Verified ==
    [][(last'.op = "verify_email" /\ last'.id \in Ids) =>
        LET user == get(users', last'.id) IN
          /\ user # None
          /\ user[1].is_verified = TRUE
          /\ user[1].verification_token = None
          /\ ret' = user]_vars

C7_Witness ==
    /\ last.op = "verify_email"
    /\ last.id \in Ids
    /\ users[last.id].verification_sent_at # None
    /\ users[last.id].is_verified

\* C9 as stated: create stores is_active and is_admin as given, and
\* is_verified as given when the input provides it, FALSE otherwise.
C9_VerifiedAsProvided ==
    last.op = "create" =>
        LET user == users[Len(users)] IN
          /\ user.is_active = last.obj_in.is_active
          /\ user.is_admin = last.obj_in.is_admin
          /\ user.is_verified =
                IF last.obj_in.is_verified = None THEN FALSE
                ELSE last.obj_in.is_verified[1]

\* C9 amended: create stores is_active and is_admin as given, and
\* is_verified as FALSE whether or not the input provides it.
C9_VerifiedFalse ==
    last.op = "create" =>
        LET user == users[Len(users)] IN
          /\ user.is_active = last.obj_in.is_active
          /\ user.is_admin = last.obj_in.is_admin
          /\ user.is_verified = FALSE
          /\ ret = Some(user)

C9_Witness ==
    /\ last.op = "create"
    /\ last.obj_in.is_verified = Some(TRUE)
    /\ last.obj_in.is_admin
    /\ ret = Some(users[Len(users)])

\* The password a call supplies for user i: Some(p), or None when the call
\* supplies none for that user.
Supplied(i) ==
    IF last.op = "create" /\ i = Len(users) THEN Some(last.obj_in.password)
    ELSE IF last.op = "reset_password" /\ i = last.id THEN Some(last.new_password)
    ELSE IF /\ last.op = "update"
            /\ i = last.id
            /\ "password" \in DOMAIN last.obj_in
         THEN last.obj_in["password"]
    ELSE None

\* Every stored hashed_password is an output of the hash primitive and is
\* no supplied plaintext.
HashesOnly ==
    \A i \in Ids :
        /\ IsOneWayHash(users[i].hashed_password)
        /\ \A p \in Passwords : users[i].hashed_password # Plain(p)

\* C10 as stated: every stored hash is an output of the hash primitive,
\* never a plaintext, and verifies the password most recently supplied to
\* create, update or reset_password; right after create, authenticate with
\* the plaintext returns the created user.
C10_LastSuppliedVerifies ==
    /\ HashesOnly
    /\ \A i \in Ids :
          Supplied(i) # None =>
              verify_password(Supplied(i)[1], users[i].hashed_password)
    /\ last.op = "create" =>
          authenticate(users, last.obj_in.email, last.obj_in.password)
              = Some(users[Len(users)])

\* C10 amended: as C10, for the password most recently supplied to create or
\* reset_password or supplied non-empty to update; a call that supplies no
\* such password leaves the stored hash as it was.
C10_LastHashedVerifies ==
    [][/\ HashesOnly'
       /\ \A i \in 1..Len(users') :
            IF Truthy(Supplied(i)') \/ (Supplied(i)' # None /\ last'.op # "update")
            THEN verify_password(Supplied(i)'[1], users'[i].hashed_password)
            ELSE i \in Ids /\ users'[i].hashed_password = users[i].hashed_password
       /\ last'.op = "create" =>
            authenticate(users', last'.obj_in.email, last'.obj_in.password)
                = Some(users'[Len(users')])]_vars

C10_Witness ==
    /\ last.op = "update"
    /\ "password" \in DOMAIN last.obj_in
    /\ Truthy(last.obj_in["password"])
    /\ authenticate(users, users[last.id].email, last.obj_in["password"][1])
          = Some(users[last.id])
    /\ \E p \in Passwords :
          authenticate(users, users[last.id].email, p) = None

\* The table after the whole handler of a session's call is applied to it.
WholeEffect(db, sn) ==
    LET call == sn.call IN
    CASE call.op = "create" ->
           Append(db, NewUser(Len(db) + 1, call.obj_in, sn.hashed))
      [] call.op = "update" ->
           Persist(db, BaseUpdate(db[call.id], UpdateData(call.obj_in, sn.hashed)))
      [] call.op = "verify_email" ->
           Persist(db, VerifiedRow(db[call.id]))
      [] call.op = "set_verification_token" ->
           Persist(db, VerificationTokenRow(db[call.id], call.token, sn.now[1]))
      [] call.op = "set_password_reset_token" ->
           Persist(db, PasswordResetTokenRow(db[call.id], call.token, sn.now[1]))
      [] call.op = "reset_password" ->
           Persist(db, ResetRow(db[call.id], sn.hashed))

\* C8: under any interleaving of two writing sessions and a reader, the
\* table changes only when a session commits, and the commit applies all of
\* that handler's field changes in the one step: no state of the table, and
\* so nothing a reader fetches, holds part of a handler's changes.
C8_AtomicCommit ==
    [][users' # users =>
        \E s \in Sessions :
            /\ sess[s].pc = "commit"
            /\ sess'[s] = Idle
            /\ users' = WholeEffect(users, sess[s])]_vars

C8_Witness ==
    /\ sess["s1"].pc = "assign"
    /\ sess["s1"].call.op = "verify_email"
    /\ DOMAIN sess["s1"].writes = {"is_verified"}
    /\ sess["s2"].pc = "assign"
    /\ sess["s2"].call.op = "reset_password"
    /\ sess["s2"].call.id = sess["s1"].call.id
    /\ DOMAIN sess["s2"].writes = {"hashed_password"}
    /\ last.op = "read"
    /\ ret # None
    /\ ret[1].is_verified = FALSE
    /\ ret[1].password_reset_token # None
    /\ verify_password("p", ret[1].hashed_password)

====
